---- MODULE Spec2Model ----
(***************************************************************************)
(* The single-threaded web server of                                       *)
(* 20_web_server/01_single_threaded_web_server/src/main.rs: main binds a   *)
(* listener, takes one connection at a time from listener.incoming() and   *)
(* hands it to handle_connection, which reads once into a 1024-byte        *)
(* buffer, classifies the request by a literal prefix, reads the route's   *)
(* file, writes status line + contents, flushes and drops the stream.      *)
(* Every Result is unwrap()ed, so any Err panics the only thread.          *)
(* The println! of the buffer changes nothing of this state and is left    *)
(* out. read and write are modelled by the contract of io::Read and        *)
(* io::Write: one call moves some leading part of the bytes and returns    *)
(* its length, which handle_connection drops.                              *)
(*                                                                         *)
(* Bytes are their numeric values (0..255); byte strings are sequences.    *)
(***************************************************************************)
EXTENDS Integers, Sequences, FiniteSets, TLC

\* How many connections the clients open before the model stops looking.
MaxConns == 2

\* let mut buffer = [0; 1024];
BufferSize == 1024

Conns == 1..MaxConns

----------------------------------------------------------------------------
(* Byte-string helpers *)

Min(a, b) == IF a <= b THEN a ELSE b

Take(s, n) == SubSeq(s, 1, Min(n, Len(s)))

Fill(n, b) == [i \in 1..n |-> b]

\* Faulty variant of StartsWith: a C-string compare, which stops at the first
\* zero byte of s (strncmp(s, p, strlen(s)) == 0).
StartsWithCStr(s, p) ==
    LET z == {i \in 1..Len(s) : s[i] = 0}
        n == IF z = {} THEN Len(s) ELSE (CHOOSE i \in z : \A j \in z : i <= j) - 1
        m == Min(n, Len(p))
    IN  SubSeq(s, 1, m) = SubSeq(p, 1, m)

\* slice::starts_with: the needle is no longer than the slice and equals its
\* leading bytes.
StartsWith(s, p) == Len(p) <= Len(s) /\ SubSeq(s, 1, Len(p)) = p

IsPrefix(p, s) == StartsWith(s, p)

----------------------------------------------------------------------------
(* The literals of handle_connection *)

\* b"GET / HTTP/1.1\r\n"
get == <<71, 69, 84, 32, 47, 32, 72, 84, 84, 80, 47, 49, 46, 49, 13, 10>>

\* "HTTP/1.1 200 OK\r\n\r\n"
StatusOk == <<72, 84, 84, 80, 47, 49, 46, 49, 32, 50, 48, 48, 32, 79, 75,
              13, 10, 13, 10>>

\* "HTTP/1.1 404 NOT FOUND\r\n\r\n"
StatusNotFound == <<72, 84, 84, 80, 47, 49, 46, 49, 32, 52, 48, 52, 32,
                    78, 79, 84, 32, 70, 79, 85, 78, 68, 13, 10, 13, 10>>

HelloFile == "hello.html"
NotFoundFile == "404.html"
FileNames == {HelloFile, NotFoundFile}

\* Faulty variants of Route: the two arms exchanged; the 200 status line on
\* both arms; the prefix test done as a C-string compare.
RouteSwapped(buf) ==
    IF StartsWith(buf, get)
    THEN [status_line |-> StatusNotFound, filename |-> NotFoundFile]
    ELSE [status_line |-> StatusOk, filename |-> HelloFile]

RouteOk200Always(buf) ==
    IF StartsWith(buf, get)
    THEN [status_line |-> StatusOk, filename |-> HelloFile]
    ELSE [status_line |-> StatusOk, filename |-> NotFoundFile]

RouteCStr(buf) ==
    IF StartsWithCStr(buf, get)
    THEN [status_line |-> StatusOk, filename |-> HelloFile]
    ELSE [status_line |-> StatusNotFound, filename |-> NotFoundFile]

\* let (status_line, filename) = if buffer.starts_with(get) {..} else {..};
Route(buf) ==
    IF StartsWith(buf, get)
    THEN [status_line |-> StatusOk, filename |-> HelloFile]
    ELSE [status_line |-> StatusNotFound, filename |-> NotFoundFile]

\* format!("{}{}", status_line, contents)
Format(status, body) == status \o body

----------------------------------------------------------------------------
(* The environment: what clients send and what the files hold *)

\* "Host: x\r\n\r\n"
HostHeader == <<72, 111, 115, 116, 58, 32, 120, 13, 10, 13, 10>>

\* "POST / HTTP/1.1\r\n\r\n"
PostRoot == <<80, 79, 83, 84, 32, 47, 32, 72, 84, 84, 80, 47, 49, 46, 49,
              13, 10, 13, 10>>

\* "GET /anything HTTP/1.1\r\n"
GetAnything == <<71, 69, 84, 32, 47, 97, 110, 121, 116, 104, 105, 110, 103,
                 32, 72, 84, 84, 80, 47, 49, 46, 49, 13, 10>>

\* "GET / HTTP/1.1\n": line feed only
GetLfOnly == <<71, 69, 84, 32, 47, 32, 72, 84, 84, 80, 47, 49, 46, 49, 10>>

\* The requests the clients send: the root request alone and with a header,
\* other methods and paths, nothing at all, proper prefixes of the literal
\* (also followed by real zero bytes), and requests of exactly BufferSize
\* bytes and of more (120 is "x").
Requests ==
    { get,
      get \o HostHeader,
      PostRoot,
      GetAnything,
      GetLfOnly,
      <<>>,
      Take(get, Len(get) - 1),
      Take(get, Len(get) - 2) \o <<0, 0>>,
      Take(get, Len(get) - 1) \o <<0>> \o HostHeader,
      get \o Fill(BufferSize - Len(get), 120),
      Fill(BufferSize, 120),
      get \o Fill(BufferSize - Len(get), 120) \o HostHeader,
      Fill(BufferSize, 120) \o get }

\* A file is absent, or holds bytes. 255 is never part of valid UTF-8.
Absent == [exists |-> FALSE, bytes |-> <<>>]
\* "<h1>Hello!</h1>"
PageA == [exists |-> TRUE,
          bytes |-> <<60, 104, 49, 62, 72, 101, 108, 108, 111, 33, 60, 47,
                      104, 49, 62>>]
\* "Oops!"
PageB == [exists |-> TRUE, bytes |-> <<79, 111, 112, 115, 33>>]
Corrupt == [exists |-> TRUE, bytes |-> <<60, 255, 62>>]
FileStates == {Absent, PageA, PageB, Corrupt}

\* Valid UTF-8, for the byte strings of FileStates (ASCII bytes and 0xFF).
IsUtf8(bytes) == \A i \in 1..Len(bytes) : bytes[i] < 128

\* fs::read_to_string(filename): Ok(contents) or Err
ReadToStringOk(file) == file.exists /\ IsUtf8(file.bytes)

\* Faulty variant of ReadLimit: the read is not capped by the buffer.
ReadLimitUnbounded(req) == Len(req)

\* The most one stream.read(&mut buffer) can return: what the client sent, as
\* far as it fits in the buffer.
ReadLimit(req) == Min(Len(req), BufferSize)

\* The counts one stream.read(&mut buffer) can return for a client that sent
\* req: between 1 and ReadLimit, or 0 at end of stream when the client sent
\* nothing. A stream delivers the bytes in pieces of any size, so one read can
\* return before the whole request is there; the counts tried are 1, just
\* short of the literal, the literal, half the buffer, and everything.
ReadCounts(req) ==
    IF Len(req) = 0 THEN {0}
    ELSE {n \in {1, Len(get) - 1, Len(get), BufferSize \div 2, ReadLimit(req)} :
            1 <= n /\ n <= ReadLimit(req)}

\* The counts one stream.write(buf) can return: Write::write makes one
\* attempt and may take only a leading part of buf. The counts tried are one
\* byte, the status line alone, and everything.
WriteCounts(len, statusLen) ==
    {n \in {1, statusLen, len} : 1 <= n /\ n <= len}

----------------------------------------------------------------------------
(* State *)

VARIABLES
    pc,           \* where main is: "bind", "accept", the steps of
                  \* handle_connection, or "terminated" after a panic
    panic,        \* which unwrap() panicked ("none" while running)
    fs,           \* the files of the working directory
    cur,          \* the connection handle_connection was last called with
    phase,        \* per connection: Queued, Accepted, Read, Classified,
                  \* Responded, Closed
    request,      \* the bytes the client of connection cur sent
    reads,        \* calls of stream.read on connection cur
    nread,        \* the count the read returned (the code drops it)
    buffer,       \* handle_connection's buffer
    status_line,  \* handle_connection's locals
    filename,
    contents,
    response,
    wire,         \* the bytes connection cur's stream accepted from write
    flushed       \* whether stream.flush() returned Ok on connection cur

vars == <<pc, panic, fs, cur, phase, request, reads, nread, buffer,
          status_line, filename, contents, response, wire, flushed>>

locals == <<buffer, status_line, filename, contents, response>>
stream == <<request, reads, nread, wire, flushed>>

\* The phases of a connection, in the order handle_connection goes through
\* them; Queued is a connection main has not taken from incoming() yet.
Phases == <<"Queued", "Accepted", "Read", "Classified", "Responded", "Closed">>

Rank(p) == CHOOSE i \in 1..Len(Phases) : Phases[i] = p

\* The positions of main in the order one pass of the loop visits them.
PcOrder == <<"bind", "read", "classify", "fs_read", "write", "flush",
             "return", "accept", "terminated">>

PcRank(p) == CHOOSE i \in 1..Len(PcOrder) : PcOrder[i] = p

\* The bytes the read put into the buffer.
Received == Take(buffer, nread)

Init ==
    /\ pc = "bind"
    /\ panic = "none"
    /\ fs \in [FileNames -> FileStates]
    /\ cur = 0
    /\ phase = [c \in Conns |-> "Queued"]
    /\ request = <<>>
    /\ reads = 0
    /\ nread = 0
    /\ buffer = <<>>
    /\ status_line = <<>>
    /\ filename = ""
    /\ contents = <<>>
    /\ response = <<>>
    /\ wire = <<>>
    /\ flushed = FALSE

----------------------------------------------------------------------------
(* The client of the connection, and a record of the exchange before *)

VARIABLES
    avail,        \* whether the bytes of the client of connection cur (or
                  \* its end of stream) have reached the socket
    fsAtRead,     \* the files as they were when connection cur's file was read
    prev          \* the exchange of the connection handled before cur

histvars == <<fsAtRead, prev>>

NoExchange ==
    [valid |-> FALSE, request |-> <<>>, filename |-> "",
     files |-> [f \in FileNames |-> Absent], wire |-> <<>>]

ClientInit ==
    /\ avail = FALSE
    /\ fsAtRead = [f \in FileNames |-> Absent]
    /\ prev = NoExchange

\* Faulty variant of ReadReady: the read returns without waiting for bytes (a
\* non-blocking socket, or a read timeout that is taken for a read).
ReadReadyAlways == TRUE

\* stream.read on a blocking socket with no timeout set returns Ok only when
\* bytes, or the end of the stream, have arrived.
ReadReady == avail

\* The client sends its request (or closes without sending) while
\* handle_connection waits in stream.read.
ClientSends ==
    /\ pc = "read"
    /\ ~avail
    /\ avail' = TRUE
    /\ UNCHANGED <<vars, histvars>>

\* What the record keeps of connection cur when handle_connection returns.
Exchange ==
    [valid |-> TRUE, request |-> request, filename |-> filename,
     files |-> fsAtRead, wire |-> wire]

----------------------------------------------------------------------------
(* main *)

\* A panic on the only thread ends the process; unwinding drops the stream.
Panic(cause) ==
    /\ pc' = "terminated"
    /\ panic' = cause
    /\ phase' = [c \in Conns |-> IF c = cur /\ phase[c] # "Queued"
                                 THEN "Closed" ELSE phase[c]]

\* TcpListener::bind("127.0.0.1:7878").unwrap()
BindOk ==
    /\ pc = "bind"
    /\ pc' = "accept"
    /\ UNCHANGED <<panic, fs, cur, phase, locals, stream>>

\* Faulty variant of BindFail: the bind is tried again after the error.
BindFailRetry ==
    /\ pc = "bind"
    /\ panic' = "bind"
    /\ pc' = "bind"
    /\ UNCHANGED <<fs, cur, phase, locals, stream>>

\* bind returns Err: unwrap() panics before the loop is entered.
BindFail ==
    /\ pc = "bind"
    /\ Panic("bind")
    /\ UNCHANGED <<fs, cur, locals, stream>>

\* Faulty variant of CanAccept: connections are taken while one is handled.
CanAcceptAnytime == pc \notin {"bind", "terminated"}

\* for stream in listener.incoming(): the loop asks for the next connection
\* only when handle_connection has returned.
CanAccept == pc = "accept"

\* let stream = stream.unwrap(); handle_connection(stream);
\* let mut buffer = [0; 1024];
Accept ==
    /\ CanAccept
    /\ cur < MaxConns
    /\ cur' = cur + 1
    /\ phase' = [phase EXCEPT ![cur + 1] = "Accepted"]
    /\ \E r \in Requests : request' = r
    /\ reads' = 0
    /\ nread' = 0
    /\ wire' = <<>>
    /\ flushed' = FALSE
    /\ buffer' = Fill(BufferSize, 0)
    /\ pc' = "read"
    /\ UNCHANGED <<panic, fs, status_line, filename, contents, response>>

\* Faulty variant of AcceptFail: the error is logged and the loop goes on.
AcceptFailContinue ==
    /\ pc = "accept"
    /\ cur < MaxConns
    /\ panic' = "accept"
    /\ pc' = "accept"
    /\ UNCHANGED <<fs, cur, phase, locals, stream>>

\* incoming() yields Err: stream.unwrap() panics.
AcceptFail ==
    /\ pc = "accept"
    /\ cur < MaxConns
    /\ Panic("accept")
    /\ UNCHANGED <<fs, cur, locals, stream>>

----------------------------------------------------------------------------
(* handle_connection *)

\* stream.read(&mut buffer).unwrap();
ReadOk ==
    /\ pc = "read"
    /\ \E n \in ReadCounts(request) :
          /\ nread' = n
          /\ buffer' = [i \in 1..BufferSize |->
                          IF i <= n THEN request[i] ELSE buffer[i]]
    /\ reads' = reads + 1
    /\ phase' = [phase EXCEPT ![cur] = "Read"]
    /\ pc' = "classify"
    /\ UNCHANGED <<panic, fs, cur, request, wire, flushed,
                   status_line, filename, contents, response>>

\* Faulty variant of ReadFail: the error is swallowed and the loop goes on.
ReadFailContinue ==
    /\ pc = "read"
    /\ reads' = reads + 1
    /\ panic' = "read"
    /\ phase' = [phase EXCEPT ![cur] = "Closed"]
    /\ pc' = "accept"
    /\ UNCHANGED <<fs, cur, request, nread, wire, flushed, locals>>

\* stream.read(..) returns Err: unwrap() panics.
ReadFail ==
    /\ pc = "read"
    /\ reads' = reads + 1
    /\ Panic("read")
    /\ UNCHANGED <<fs, cur, request, nread, wire, flushed, locals>>

\* let (status_line, filename) = if buffer.starts_with(get) { .. } else { .. };
Classify ==
    /\ pc = "classify"
    /\ status_line' = Route(buffer).status_line
    /\ filename' = Route(buffer).filename
    /\ phase' = [phase EXCEPT ![cur] = "Classified"]
    /\ pc' = "fs_read"
    /\ UNCHANGED <<panic, fs, cur, stream, buffer, contents, response>>

\* Faulty variant of FsReadOk: a file served before is served from memory.
FsReadOkCached ==
    /\ pc = "fs_read"
    /\ ReadToStringOk(fs[filename])
    /\ LET cached == prev.valid /\ prev.filename = filename
           body == IF cached THEN prev.files[filename].bytes
                             ELSE fs[filename].bytes
       IN  /\ contents' = body
           /\ response' = Format(status_line, body)
    /\ pc' = "write"
    /\ UNCHANGED <<panic, fs, cur, phase, stream, buffer, status_line, filename>>

\* let contents = fs::read_to_string(filename).unwrap();
\* let response = format!("{}{}", status_line, contents);
FsReadOk ==
    /\ pc = "fs_read"
    /\ ReadToStringOk(fs[filename])
    /\ contents' = fs[filename].bytes
    /\ response' = Format(status_line, fs[filename].bytes)
    /\ pc' = "write"
    /\ UNCHANGED <<panic, fs, cur, phase, stream, buffer, status_line, filename>>

\* Faulty variant of FsReadFail: a missing file is served as an empty body.
FsReadFailEmptyBody ==
    /\ pc = "fs_read"
    /\ ~ReadToStringOk(fs[filename])
    /\ contents' = <<>>
    /\ response' = Format(status_line, <<>>)
    /\ pc' = "write"
    /\ UNCHANGED <<panic, fs, cur, phase, stream, buffer, status_line, filename>>

\* fs::read_to_string(filename) returns Err: unwrap() panics.
FsReadFail ==
    /\ pc = "fs_read"
    /\ ~ReadToStringOk(fs[filename])
    /\ Panic("file")
    /\ UNCHANGED <<fs, cur, stream, locals>>

\* stream.write(response.as_bytes()).unwrap();
\* One call of write: the stream takes the first n bytes and returns Ok(n);
\* the code drops n.
WriteOk ==
    /\ pc = "write"
    /\ \E n \in WriteCounts(Len(response), Len(status_line)) :
          wire' = wire \o SubSeq(response, 1, n)
    /\ phase' = [phase EXCEPT ![cur] = "Responded"]
    /\ pc' = "flush"
    /\ UNCHANGED <<panic, fs, cur, request, reads, nread, flushed, locals>>

\* Faulty variant of WriteFail: the connection is handled again from the read.
WriteFailRetry ==
    /\ pc = "write"
    /\ panic' = "write"
    /\ phase' = [phase EXCEPT ![cur] = "Accepted"]
    /\ pc' = "read"
    /\ UNCHANGED <<fs, cur, stream, locals>>

\* stream.write(..) returns Err: unwrap() panics.
WriteFail ==
    /\ pc = "write"
    /\ Panic("write")
    /\ UNCHANGED <<fs, cur, stream, locals>>

\* stream.flush().unwrap();
FlushOk ==
    /\ pc = "flush"
    /\ flushed' = TRUE
    /\ pc' = "return"
    /\ UNCHANGED <<panic, fs, cur, phase, request, reads, nread, wire, locals>>

\* stream.flush() returns Err: unwrap() panics.
FlushFail ==
    /\ pc = "flush"
    /\ Panic("flush")
    /\ UNCHANGED <<fs, cur, stream, locals>>

\* } : handle_connection returns, its locals and the stream are dropped, and
\* the loop of main goes on to the next connection.
Return ==
    /\ pc = "return"
    /\ phase' = [phase EXCEPT ![cur] = "Closed"]
    /\ buffer' = <<>>
    /\ status_line' = <<>>
    /\ filename' = ""
    /\ contents' = <<>>
    /\ response' = <<>>
    /\ pc' = "accept"
    /\ UNCHANGED <<panic, fs, cur, stream>>

----------------------------------------------------------------------------
(* The environment changes a file *)

FsChange ==
    /\ \E f \in FileNames, s \in FileStates :
          /\ s # fs[f]
          /\ fs' = [fs EXCEPT ![f] = s]
    /\ UNCHANGED <<pc, panic, cur, phase, stream, locals>>

----------------------------------------------------------------------------
(* 13_iterators_and_closures/02_iterators/src/main.rs: Counter               *)
(* An Option is a sequence: None is <<>>, Some(x) is <<x>>.                  *)

\* How many times the caller of next goes on calling it.
MaxCalls == 9

None == <<>>
Some(x) == <<x>>

\* Faulty variant of CounterNext: the bound is tested one too late.
CounterNextOffByOne(c) ==
    IF c <= 5 THEN [count |-> c + 1, item |-> Some(c + 1)]
              ELSE [count |-> c, item |-> None]

\* Counter::next on a Counter whose count is c: the count afterwards and the
\* item returned.
\*   if self.count < 5 { self.count += 1; Some(self.count) } else { None }
CounterNext(c) ==
    IF c < 5 THEN [count |-> c + 1, item |-> Some(c + 1)]
             ELSE [count |-> c, item |-> None]

\* Faulty variant of SkipNext: nothing is skipped.
SkipNextNoSkip(c, n) ==
    [count |-> CounterNext(c).count, n |-> 0, item |-> CounterNext(c).item]

\* Iterator::nth(n) on a Counter: next is called until n items are dropped
\* or None comes; then once more for the item.
RECURSIVE CounterNth(_, _)
CounterNth(c, n) ==
    IF n = 0 THEN CounterNext(c)
    ELSE IF CounterNext(c).item = None THEN CounterNext(c)
    ELSE CounterNth(CounterNext(c).count, n - 1)

\* Skip::next over a Counter, n items still to skip: the first call drops
\* them (nth(n)), later calls pass next through.
SkipNext(c, n) ==
    IF n > 0
    THEN [count |-> CounterNth(c, n).count, n |-> 0, item |-> CounterNth(c, n).item]
    ELSE [count |-> CounterNext(c).count, n |-> 0, item |-> CounterNext(c).item]

VARIABLES
    count,        \* tests::calling_next_directly: counter.count
    returned,     \* what the calls of counter.next() returned, in order
    zip_pc,       \* tests::using_other_iterator_trait_methods: where the
                  \* pull of sum() is: "a", "b", "fold" or "done"
    a_count,      \* count of the first Counter (the left side of zip)
    b_count,      \* count of the second Counter (under skip(1))
    skip_n,       \* what skip(1) has still to skip
    a_item,       \* the item zip holds from the left side
    pairs,        \* the pairs zip has produced
    sum           \* the running total of sum()

itervars == <<count, returned, zip_pc, a_count, b_count, skip_n, a_item,
              pairs, sum>>

\* Counter::new() three times; skip(1); sum starts from 0.
IterInit ==
    /\ count = 0
    /\ returned = <<>>
    /\ zip_pc = "a"
    /\ a_count = 0
    /\ b_count = 0
    /\ skip_n = 1
    /\ a_item = None
    /\ pairs = <<>>
    /\ sum = 0

\* counter.next(), called directly
CallNext ==
    /\ Len(returned) < MaxCalls
    /\ count' = CounterNext(count).count
    /\ returned' = Append(returned, CounterNext(count).item)
    /\ UNCHANGED <<zip_pc, a_count, b_count, skip_n, a_item, pairs, sum>>

\* Zip::next, first half: the left side is asked; None ends the zip.
ZipLeft ==
    /\ zip_pc = "a"
    /\ a_count' = CounterNext(a_count).count
    /\ a_item' = CounterNext(a_count).item
    /\ zip_pc' = IF CounterNext(a_count).item = None THEN "done" ELSE "b"
    /\ UNCHANGED <<count, returned, b_count, skip_n, pairs, sum>>

\* Zip::next, second half: the right side is asked; None ends the zip and
\* the left item is dropped, Some(b) makes the pair.
ZipRight ==
    /\ zip_pc = "b"
    /\ b_count' = SkipNext(b_count, skip_n).count
    /\ skip_n' = SkipNext(b_count, skip_n).n
    /\ IF SkipNext(b_count, skip_n).item = None
       THEN zip_pc' = "done" /\ pairs' = pairs
       ELSE /\ zip_pc' = "fold"
            /\ pairs' = Append(pairs, <<a_item[1], SkipNext(b_count, skip_n).item[1]>>)
    /\ UNCHANGED <<count, returned, a_count, a_item, sum>>

\* .map(|(a, b)| a * b).filter(|x| x % 3 == 0) and the addition of sum(), on
\* the pair zip has just produced. The items are at most 5, so the u32
\* product and total stay far below u32::MAX.
Fold ==
    /\ zip_pc = "fold"
    /\ LET p == pairs[Len(pairs)]
           x == p[1] * p[2]
       IN  sum' = IF x % 3 = 0 THEN sum + x ELSE sum
    /\ zip_pc' = "a"
    /\ UNCHANGED <<count, returned, a_count, b_count, skip_n, a_item, pairs>>

----------------------------------------------------------------------------
(* 13_iterators_and_closures/02_iterators/src/main.rs: shoes_in_my_size      *)

\* The longest vector of shoes handed to shoes_in_my_size.
MaxShoes == 3

\* struct Shoe { size: u32, style: String }
Shoes == [size : {10, 13}, style : {"sneaker", "sandal", "boot"}]

ShoeSizes == {10, 11, 13}

RECURSIVE SeqsUpTo(_, _)
SeqsUpTo(S, n) ==
    IF n = 0 THEN {<<>>}
    ELSE SeqsUpTo(S, n - 1) \cup
         {Append(q, x) : q \in {r \in SeqsUpTo(S, n - 1) : Len(r) = n - 1}, x \in S}

\* Faulty variant of FitsMySize: shoes at least as large are kept too.
FitsAtLeast(s, n) == s.size >= n

\* The closure of the filter: |s| s.size == shoe_size
FitsMySize(s, n) == s.size = n

VARIABLES
    shoes,        \* the argument shoes
    shoe_size,    \* the argument shoe_size
    pos,          \* how many shoes into_iter() has yielded
    picked,       \* the places in shoes of the shoes the filter let through
    in_my_size    \* what collect() has gathered

shoevars == <<shoes, shoe_size, pos, picked, in_my_size>>

ShoesInit ==
    /\ shoes \in SeqsUpTo(Shoes, MaxShoes)
    /\ shoe_size \in ShoeSizes
    /\ pos = 0
    /\ picked = <<>>
    /\ in_my_size = <<>>

ShoesIdle ==
    /\ shoes = <<>>
    /\ shoe_size = 10
    /\ pos = 0
    /\ picked = <<>>
    /\ in_my_size = <<>>

\* shoes.into_iter().filter(|s| s.size == shoe_size).collect(): one shoe is
\* taken from the vector, tested, and pushed to the result if it passes.
FilterShoe ==
    /\ pos < Len(shoes)
    /\ pos' = pos + 1
    /\ IF FitsMySize(shoes[pos + 1], shoe_size)
       THEN /\ in_my_size' = Append(in_my_size, shoes[pos + 1])
            /\ picked' = Append(picked, pos + 1)
       ELSE UNCHANGED <<in_my_size, picked>>
    /\ UNCHANGED <<shoes, shoe_size>>

ShoesDone == pos = Len(shoes)

----------------------------------------------------------------------------
(* 15_smart_pointers/06_refcell_interior_mutability/src/lib.rs: LimitTracker *)

\* The largest max and value of the trackers tried (besides the test's 100
\* and the values around its thresholds), and the most messages awaited.
MaxQuota == 12
MaxSent == 2

MsgError == "Error: You are over your quota!"
MsgUrgent == "Urgent warning: You've used up over 90% of your quota!"
MsgWarning == "Warning: You've used up over 75% of your quota!"

Quotas == 0..MaxQuota \cup {100}
Values == 0..(MaxQuota + 2) \cup {74, 75, 80, 89, 90, 99, 100, 101}

\* percentage_of_max >= num/den, where percentage_of_max is
\* self.value as f64 / self.max as f64: with max = 0 the quotient is +inf
\* for a positive value (at least anything) and NaN for 0 (at least nothing);
\* otherwise, for the numbers here, the exact comparison of v/m with num/den.
RatioAtLeast(v, m, num, den) ==
    IF m = 0 THEN v > 0 ELSE v * den >= num * m

\* The messages one set_value sends:
\*   if percentage_of_max >= 1.0 { send(error) }
\*   else if percentage_of_max >= 0.9 { send(urgent) }
\*   else if percentage_of_max >= 0.75 { send(warning) }
Messages(v, m) ==
    IF RatioAtLeast(v, m, 1, 1) THEN <<MsgError>>
    ELSE IF RatioAtLeast(v, m, 9, 10) THEN <<MsgUrgent>>
    ELSE IF RatioAtLeast(v, m, 3, 4) THEN <<MsgWarning>>
    ELSE <<>>

VARIABLES
    max,            \* limit_tracker.max
    value,          \* limit_tracker.value
    arg,            \* the argument of the last set_value
    sent_messages   \* mock_messenger.sent_messages

limitvars == <<max, value, arg, sent_messages>>

\* MockMessenger::new(); LimitTracker::new(&mock_messenger, max)
LimitInit ==
    /\ max \in Quotas
    /\ value = 0
    /\ arg = 0
    /\ sent_messages = <<>>

LimitIdle ==
    /\ max = 100
    /\ value = 0
    /\ arg = 0
    /\ sent_messages = <<>>

\* limit_tracker.set_value(v); MockMessenger::send pushes each message.
SetValue ==
    /\ Len(sent_messages) < MaxSent
    /\ \E v \in Values :
          /\ arg' = v
          /\ value' = v
          /\ sent_messages' = sent_messages \o Messages(v, max)
    /\ UNCHANGED max

----------------------------------------------------------------------------
(* 11_testing/01_writing_tests/src/lib.rs: Guess                             *)

\* How far beyond 1 and 100 the values tried go.
GuessMargin == 5

\* i32 values: around the two limits, the test's 200, and the ends of i32.
GuessInputs ==
    (1 - GuessMargin)..(100 + GuessMargin)
        \cup {200, -2147483647 - 1, 2147483647}

\* Faulty variant of GuessPanics: 100 is refused.
GuessPanicsAt100(v) == v < 1 \/ v >= 100

\* if value < 1 || value > 100 { panic!(..) }
GuessPanics(v) == v < 1 \/ v > 100

VARIABLES
    guess_arg,    \* the argument value of Guess::new
    guess_state,  \* "called", "returned" or "panicked"
    guess         \* the Guess returned: its field value

guessvars == <<guess_arg, guess_state, guess>>

GuessInit ==
    /\ guess_arg \in GuessInputs
    /\ guess_state = "called"
    /\ guess = [value |-> 0]

GuessIdle ==
    /\ guess_arg = 1
    /\ guess_state = "returned"
    /\ guess = [value |-> 1]

\* Guess::new(value) panics
GuessNewPanic ==
    /\ guess_state = "called"
    /\ GuessPanics(guess_arg)
    /\ guess_state' = "panicked"
    /\ UNCHANGED <<guess_arg, guess>>

\* Guess::new(value) returns Guess { value }
GuessNewOk ==
    /\ guess_state = "called"
    /\ ~GuessPanics(guess_arg)
    /\ guess_state' = "returned"
    /\ guess' = [value |-> guess_arg]
    /\ UNCHANGED guess_arg

----------------------------------------------------------------------------
(* 11_testing/01_writing_tests/src/lib.rs and 05_structs/02_example:         *)
(* Rectangle::can_hold                                                       *)

\* The largest side of the rectangles tried, besides the sides of the tests.
MaxSide == 3

\* width: u32, height: u32
Sides == 0..MaxSide \cup {1, 5, 7, 8}

Rectangles == [width : Sides, height : Sides]

RectCrates == {"structs", "testing"}

\* Faulty variant of can_hold: equal sides are let through.
can_hold_or_equal(self, other) ==
    self.width >= other.width /\ self.height >= other.height

\* 11_testing: self.width > other.width && self.height > other.height
can_hold(self, other) ==
    self.width > other.width /\ self.height > other.height

\* 05_structs: self.width > rect.width && self.height > rect.height
can_hold_structs(self, rect) ==
    self.width > rect.width /\ self.height > rect.height

VARIABLES
    rect_crate,   \* which crate's Rectangle is used
    rect_self,    \* the rectangle can_hold is called on
    rect_other,   \* its argument
    rect_state,   \* "called" or "returned"
    rect_result   \* the bool returned

rectvars == <<rect_crate, rect_self, rect_other, rect_state, rect_result>>

RectInit ==
    /\ rect_crate \in RectCrates
    /\ rect_self \in Rectangles
    /\ rect_other \in Rectangles
    /\ rect_state = "called"
    /\ rect_result = FALSE

\* larger.can_hold(&smaller) of the test, returned
RectIdle ==
    /\ rect_crate = "testing"
    /\ rect_self = [width |-> 8, height |-> 7]
    /\ rect_other = [width |-> 5, height |-> 1]
    /\ rect_state = "returned"
    /\ rect_result = TRUE

\* self.can_hold(&other) returns
CanHoldReturn ==
    /\ rect_state = "called"
    /\ rect_result' = IF rect_crate = "testing"
                      THEN can_hold(rect_self, rect_other)
                      ELSE can_hold_structs(rect_self, rect_other)
    /\ rect_state' = "returned"
    /\ UNCHANGED <<rect_crate, rect_self, rect_other>>

----------------------------------------------------------------------------
(* 11_testing: add_two in 01_writing_tests, 02_controlling_tests_to_run and  *)
(* 03_test_organization                                                      *)

\* How far around 0 and 100, and below i32::MAX, the arguments tried go.
AddSpan == 4

I32Max == 2147483647
I32Min == -2147483647 - 1

AddCrates == {"writing_tests", "controlling_tests", "test_organization"}

AddInputs ==
    (0 - AddSpan)..(3 + AddSpan) \cup (100 - AddSpan)..(100 + AddSpan)
        \cup {I32Max - k : k \in 0..AddSpan} \cup {I32Min, I32Min + 1}

\* a + b on i32: whether it overflows, and the value it has (the wrapped
\* value when it overflows), computed without leaving the i32 range.
I32Add(a, b) ==
    IF b > 0 /\ a > I32Max - b
    THEN [overflow |-> TRUE, value |-> (a - I32Max - 1) + (b - I32Max - 1)]
    ELSE IF b < 0 /\ a < I32Min - b
    THEN [overflow |-> TRUE, value |-> (a - I32Min) + (b - I32Min)]
    ELSE [overflow |-> FALSE, value |-> a + b]

\* 03_test_organization: fn internal_adder(a: i32, b: i32) -> i32 { a + b }
internal_adder(a, b) == I32Add(a, b)

\* Faulty variant of add_two: adds three.
add_three(a) == I32Add(a, 3)

\* 01_writing_tests: pub fn add_two(a: i32) -> i32 { a + 2 }
add_two(a) == I32Add(a, 2)

\* 02_controlling_tests_to_run: pub fn add_two(a: i32) -> i32 { a + 2 }
add_two_controlling(a) == I32Add(a, 2)

\* 03_test_organization: pub fn add_two(a: i32) -> i32 { internal_adder(a, 2) }
add_two_organization(a) == internal_adder(a, 2)

AddTwoOf(crate, a) ==
    IF crate = "writing_tests" THEN add_two(a)
    ELSE IF crate = "controlling_tests" THEN add_two_controlling(a)
    ELSE add_two_organization(a)

VARIABLES
    add_crate,            \* which crate's add_two is called
    add_overflow_checks,  \* whether the build checks arithmetic overflow
                          \* (the dev and test profiles do, release does not)
    add_arg,              \* the argument a
    add_state,            \* "called", "returned" or "panicked"
    add_result            \* the i32 returned

addvars == <<add_crate, add_overflow_checks, add_arg, add_state, add_result>>

AddInit ==
    /\ add_crate \in AddCrates
    /\ add_overflow_checks \in BOOLEAN
    /\ add_arg \in AddInputs
    /\ add_state = "called"
    /\ add_result = 0

\* add_two(2) of the tests, returned
AddIdle ==
    /\ add_crate = "writing_tests"
    /\ add_overflow_checks = TRUE
    /\ add_arg = 2
    /\ add_state = "returned"
    /\ add_result = 4

\* add_two(a) returns: the sum fits, or the build lets it wrap.
AddTwoReturn ==
    /\ add_state = "called"
    /\ ~(AddTwoOf(add_crate, add_arg).overflow /\ add_overflow_checks)
    /\ add_result' = AddTwoOf(add_crate, add_arg).value
    /\ add_state' = "returned"
    /\ UNCHANGED <<add_crate, add_overflow_checks, add_arg>>

\* add_two(a) panics: "attempt to add with overflow"
AddTwoPanic ==
    /\ add_state = "called"
    /\ AddTwoOf(add_crate, add_arg).overflow
    /\ add_overflow_checks
    /\ add_state' = "panicked"
    /\ UNCHANGED <<add_crate, add_overflow_checks, add_arg, add_result>>

----------------------------------------------------------------------------
(* 16_concurrency/03_shared_state_concurrency/src/main.rs                    *)

\* for _ in 0..10
NumThreads == 10

Threads == 1..NumThreads

VARIABLES
    m_main,       \* where main is: "spawn", "join", "print", "done", or
                  \* "panicked" when thread::spawn failed
    m_spawned,    \* how many threads the first loop has spawned
    m_joined,     \* how many handles the second loop has joined
    m_thread,     \* where each thread's closure is: "unspawned", "lock",
                  \* "load", "store", "unlock" or "done"
    m_counter,    \* the i32 inside the Mutex
    m_holder,     \* the thread that holds the mutex, 0 when it is free
    m_num,        \* the value each thread has read through its guard
    m_result      \* what main prints, None before

mutexvars == <<m_main, m_spawned, m_joined, m_thread, m_counter, m_holder,
               m_num, m_result>>

\* let counter = Arc::new(Mutex::new(0)); let mut handles = vec![];
MutexInit ==
    /\ m_main = "spawn"
    /\ m_spawned = 0
    /\ m_joined = 0
    /\ m_thread = [t \in Threads |-> "unspawned"]
    /\ m_counter = 0
    /\ m_holder = 0
    /\ m_num = [t \in Threads |-> 0]
    /\ m_result = None

\* Faulty variant of LockAvailable: lock() does not wait for the holder.
LockAvailableAlways == TRUE

\* counter.lock() returns when no one holds the mutex.
LockAvailable == m_holder = 0

\* A panic of main ends the process and its threads with it.
MutexRunning == m_main # "panicked"

\* let counter = Arc::clone(&counter); thread::spawn(..); handles.push(handle);
Spawn ==
    /\ m_main = "spawn"
    /\ m_spawned < NumThreads
    /\ m_spawned' = m_spawned + 1
    /\ m_thread' = [m_thread EXCEPT ![m_spawned + 1] = "lock"]
    /\ m_main' = IF m_spawned + 1 = NumThreads THEN "join" ELSE "spawn"
    /\ UNCHANGED <<m_joined, m_counter, m_holder, m_num, m_result>>

\* thread::spawn panics when the OS cannot create the thread.
SpawnFail ==
    /\ m_main = "spawn"
    /\ m_spawned < NumThreads
    /\ m_main' = "panicked"
    /\ UNCHANGED <<m_spawned, m_joined, m_thread, m_counter, m_holder, m_num,
                   m_result>>

\* let mut num = counter.lock().unwrap();
ThreadLock(t) ==
    /\ MutexRunning
    /\ m_thread[t] = "lock"
    /\ LockAvailable
    /\ m_holder' = t
    /\ m_thread' = [m_thread EXCEPT ![t] = "load"]
    /\ UNCHANGED <<m_main, m_spawned, m_joined, m_counter, m_num, m_result>>

\* *num += 1, the read
ThreadLoad(t) ==
    /\ MutexRunning
    /\ m_thread[t] = "load"
    /\ m_num' = [m_num EXCEPT ![t] = m_counter]
    /\ m_thread' = [m_thread EXCEPT ![t] = "store"]
    /\ UNCHANGED <<m_main, m_spawned, m_joined, m_counter, m_holder, m_result>>

\* *num += 1, the write
ThreadStore(t) ==
    /\ MutexRunning
    /\ m_thread[t] = "store"
    /\ m_counter' = m_num[t] + 1
    /\ m_num' = [m_num EXCEPT ![t] = 0]
    /\ m_thread' = [m_thread EXCEPT ![t] = "unlock"]
    /\ UNCHANGED <<m_main, m_spawned, m_joined, m_holder, m_result>>

\* } : the closure ends, the MutexGuard num is dropped, the thread finishes.
ThreadUnlock(t) ==
    /\ MutexRunning
    /\ m_thread[t] = "unlock"
    /\ m_holder' = IF m_holder = t THEN 0 ELSE m_holder
    /\ m_thread' = [m_thread EXCEPT ![t] = "done"]
    /\ UNCHANGED <<m_main, m_spawned, m_joined, m_counter, m_num, m_result>>

\* handle.join().unwrap(): returns when that thread has finished.
Join ==
    /\ m_main = "join"
    /\ m_joined < NumThreads
    /\ m_thread[m_joined + 1] = "done"
    /\ m_joined' = m_joined + 1
    /\ m_main' = IF m_joined + 1 = NumThreads THEN "print" ELSE "join"
    /\ UNCHANGED <<m_spawned, m_thread, m_counter, m_holder, m_num, m_result>>

\* println!("Result: {}", *counter.lock().unwrap());
PrintResult ==
    /\ m_main = "print"
    /\ LockAvailable
    /\ m_result' = Some(m_counter)
    /\ m_main' = "done"
    /\ UNCHANGED <<m_spawned, m_joined, m_thread, m_counter, m_holder, m_num>>

----------------------------------------------------------------------------
(* 16_concurrency/02_message_passing/src/main.rs                             *)

Producers == {1, 2}

\* let vals = vec![..] of the two spawned closures
Vals == <<
    <<"hi", "from", "the", "thread">>,
    <<"more", "messages", "for", "you">> >>

VARIABLES
    c_main,       \* where main is: "spawn" (c_spawned tells which), "recv",
                  \* "done", or "panicked" when thread::spawn failed
    c_spawned,    \* how many producer threads main has spawned
    c_prod,       \* where each producer is: "unspawned", "send", "sleep",
                  \* "drop" or "done"
    c_sent,       \* how many of its vals each producer has sent
    c_queue,      \* the messages in the channel
    c_senders,    \* how many Senders are alive (tx1 and tx2)
    c_got         \* the messages the loop of main has received, in order

chanvars == <<c_main, c_spawned, c_prod, c_sent, c_queue, c_senders, c_got>>

\* let (tx1, rx) = mpsc::channel(); let tx2 = mpsc::Sender::clone(&tx1);
ChanInit ==
    /\ c_main = "spawn"
    /\ c_spawned = 0
    /\ c_prod = [t \in Producers |-> "unspawned"]
    /\ c_sent = [t \in Producers |-> 0]
    /\ c_queue = <<>>
    /\ c_senders = 2
    /\ c_got = <<>>

\* Faulty variant of ChanPush: the newest message is handed out first.
ChanPushFront(q, m) == <<m>> \o q

\* The channel is a queue: send puts the value at its end.
ChanPush(q, m) == Append(q, m)

ChanRunning == c_main # "panicked"

\* thread::spawn(move || { .. }) : tx1 moves into the first closure, tx2
\* into the second.
SpawnProducer ==
    /\ c_main = "spawn"
    /\ c_spawned' = c_spawned + 1
    /\ c_prod' = [c_prod EXCEPT ![c_spawned + 1] = "send"]
    /\ c_main' = IF c_spawned + 1 = 2 THEN "recv" ELSE "spawn"
    /\ UNCHANGED <<c_sent, c_queue, c_senders, c_got>>

\* thread::spawn panics when the OS cannot create the thread.
SpawnProducerFail ==
    /\ c_main = "spawn"
    /\ c_main' = "panicked"
    /\ UNCHANGED <<c_spawned, c_prod, c_sent, c_queue, c_senders, c_got>>

\* tx.send(val).unwrap(): rx is alive as long as main is in its loop, so
\* send returns Ok.
Send(t) ==
    /\ ChanRunning
    /\ c_prod[t] = "send"
    /\ c_queue' = ChanPush(c_queue, Vals[t][c_sent[t] + 1])
    /\ c_sent' = [c_sent EXCEPT ![t] = c_sent[t] + 1]
    /\ c_prod' = [c_prod EXCEPT ![t] = "sleep"]
    /\ UNCHANGED <<c_main, c_spawned, c_senders, c_got>>

\* thread::sleep(Duration::from_secs(1)); then the next val, or the end of
\* the for loop.
Sleep(t) ==
    /\ ChanRunning
    /\ c_prod[t] = "sleep"
    /\ c_prod' = [c_prod EXCEPT ![t] =
                    IF c_sent[t] = Len(Vals[t]) THEN "drop" ELSE "send"]
    /\ UNCHANGED <<c_main, c_spawned, c_sent, c_queue, c_senders, c_got>>

\* Faulty variant of DropSender: a Sender of the channel stays alive.
DropSenderLeak(t) ==
    /\ ChanRunning
    /\ c_prod[t] = "drop"
    /\ c_prod' = [c_prod EXCEPT ![t] = "done"]
    /\ UNCHANGED <<c_main, c_spawned, c_sent, c_queue, c_senders, c_got>>

\* } : the closure ends and the Sender it owns is dropped.
DropSender(t) ==
    /\ ChanRunning
    /\ c_prod[t] = "drop"
    /\ c_prod' = [c_prod EXCEPT ![t] = "done"]
    /\ c_senders' = c_senders - 1
    /\ UNCHANGED <<c_main, c_spawned, c_sent, c_queue, c_got>>

\* for received in rx { println!("Got: {}", received); } : a message is
\* taken from the head of the channel.
Recv ==
    /\ c_main = "recv"
    /\ c_queue # <<>>
    /\ c_got' = Append(c_got, Head(c_queue))
    /\ c_queue' = Tail(c_queue)
    /\ UNCHANGED <<c_main, c_spawned, c_prod, c_sent, c_senders>>

\* The iterator of rx ends when the channel is empty and every Sender is
\* dropped; main returns.
RecvEnd ==
    /\ c_main = "recv"
    /\ c_queue = <<>>
    /\ c_senders = 0
    /\ c_main' = "done"
    /\ UNCHANGED <<c_spawned, c_prod, c_sent, c_queue, c_senders, c_got>>

----------------------------------------------------------------------------
(* The specifications *)

libvars == <<itervars, shoevars, limitvars, guessvars, rectvars, addvars,
             mutexvars, chanvars>>

allvars == <<vars, avail, histvars, libvars>>

\* The crates beside the one a specification is about, at rest.
LibIdle ==
    /\ IterInit /\ ShoesIdle /\ LimitIdle /\ GuessIdle
    /\ RectIdle /\ AddIdle /\ MutexInit /\ ChanInit

WebIdle == Init /\ fs = [f \in FileNames |-> PageA] /\ ClientInit

\* The web server, with its clients and its files.
Next ==
    \/ BindOk /\ UNCHANGED <<avail, fsAtRead, prev, libvars>>
    \/ BindFail /\ UNCHANGED <<avail, fsAtRead, prev, libvars>>
    \/ Accept /\ avail' \in BOOLEAN /\ UNCHANGED <<fsAtRead, prev, libvars>>
    \/ AcceptFail /\ UNCHANGED <<avail, fsAtRead, prev, libvars>>
    \/ ClientSends /\ UNCHANGED libvars
    \/ ReadOk /\ ReadReady /\ UNCHANGED <<avail, fsAtRead, prev, libvars>>
    \/ ReadFail /\ UNCHANGED <<avail, fsAtRead, prev, libvars>>
    \/ Classify /\ UNCHANGED <<avail, fsAtRead, prev, libvars>>
    \/ FsReadOk /\ UNCHANGED <<avail, fsAtRead, prev, libvars>>
    \/ FsReadFail /\ UNCHANGED <<avail, fsAtRead, prev, libvars>>
    \/ WriteOk /\ UNCHANGED <<avail, fsAtRead, prev, libvars>>
    \/ WriteFail /\ UNCHANGED <<avail, fsAtRead, prev, libvars>>
    \/ FlushOk /\ UNCHANGED <<avail, fsAtRead, prev, libvars>>
    \/ FlushFail /\ UNCHANGED <<avail, fsAtRead, prev, libvars>>
    \/ Return /\ UNCHANGED <<avail, fsAtRead, prev, libvars>>
    \/ FsChange /\ UNCHANGED <<avail, fsAtRead, prev, libvars>>

WebInit == Init /\ ClientInit /\ LibIdle

Spec == WebInit /\ [][Next]_allvars

\* The web server with the record of the exchange before, for requests and
\* files few enough to compare two connections.
HistRequests == {get \o HostHeader, PostRoot}

\* hello.html is missing or holds one of two pages; 404.html holds one of two.
HistFiles ==
    {[f \in FileNames |-> IF f = HelloFile THEN h ELSE n] :
        h \in {Absent, PageA, PageB}, n \in {PageA, PageB}}

HistNext ==
    \/ BindOk /\ UNCHANGED <<avail, fsAtRead, prev, libvars>>
    \/ BindFail /\ UNCHANGED <<avail, fsAtRead, prev, libvars>>
    \/ Accept /\ request' \in HistRequests /\ avail' \in BOOLEAN
          /\ UNCHANGED <<fsAtRead, prev, libvars>>
    \/ AcceptFail /\ UNCHANGED <<avail, fsAtRead, prev, libvars>>
    \/ ClientSends /\ UNCHANGED libvars
    \/ ReadOk /\ ReadReady /\ UNCHANGED <<avail, fsAtRead, prev, libvars>>
    \/ ReadFail /\ UNCHANGED <<avail, fsAtRead, prev, libvars>>
    \/ Classify /\ UNCHANGED <<avail, fsAtRead, prev, libvars>>
    \/ FsReadOk /\ fsAtRead' = fs /\ UNCHANGED <<avail, prev, libvars>>
    \/ FsReadFail /\ UNCHANGED <<avail, fsAtRead, prev, libvars>>
    \/ WriteOk /\ UNCHANGED <<avail, fsAtRead, prev, libvars>>
    \/ WriteFail /\ UNCHANGED <<avail, fsAtRead, prev, libvars>>
    \/ FlushOk /\ UNCHANGED <<avail, fsAtRead, prev, libvars>>
    \/ FlushFail /\ UNCHANGED <<avail, fsAtRead, prev, libvars>>
    \/ Return /\ prev' = Exchange /\ UNCHANGED <<avail, fsAtRead, libvars>>
    \/ FsChange /\ fs' \in HistFiles
          /\ UNCHANGED <<avail, fsAtRead, prev, libvars>>

HistInit ==
    Init /\ fs \in HistFiles /\ ClientInit /\ LibIdle

SpecHist == HistInit /\ [][HistNext]_allvars

\* The two tests of Counter, each running on its own.
IterNext ==
    \/ CallNext /\ UNCHANGED <<vars, avail, histvars, shoevars, limitvars, guessvars,
                     rectvars, addvars, mutexvars, chanvars>>
    \/ ZipLeft /\ UNCHANGED <<vars, avail, histvars, shoevars, limitvars, guessvars,
                     rectvars, addvars, mutexvars, chanvars>>
    \/ ZipRight /\ UNCHANGED <<vars, avail, histvars, shoevars, limitvars, guessvars,
                     rectvars, addvars, mutexvars, chanvars>>
    \/ Fold /\ UNCHANGED <<vars, avail, histvars, shoevars, limitvars, guessvars,
                     rectvars, addvars, mutexvars, chanvars>>

IterStart ==
    /\ WebIdle /\ IterInit /\ ShoesIdle /\ LimitIdle /\ GuessIdle
    /\ RectIdle /\ AddIdle /\ MutexInit /\ ChanInit

SpecIter == IterStart /\ [][IterNext]_allvars

\* shoes_in_my_size on every vector of up to MaxShoes shoes.
ShoesNext ==
    FilterShoe /\ UNCHANGED <<vars, avail, histvars, itervars, limitvars, guessvars,
                     rectvars, addvars, mutexvars, chanvars>>

ShoesStart ==
    /\ WebIdle /\ IterInit /\ ShoesInit /\ LimitIdle /\ GuessIdle
    /\ RectIdle /\ AddIdle /\ MutexInit /\ ChanInit

SpecShoes == ShoesStart /\ [][ShoesNext]_allvars

\* A LimitTracker of any max, set_value called again and again.
LimitNext ==
    SetValue /\ UNCHANGED <<vars, avail, histvars, itervars, shoevars, guessvars,
                     rectvars, addvars, mutexvars, chanvars>>

LimitStart ==
    /\ WebIdle /\ IterInit /\ ShoesIdle /\ LimitInit /\ GuessIdle
    /\ RectIdle /\ AddIdle /\ MutexInit /\ ChanInit

SpecLimit == LimitStart /\ [][LimitNext]_allvars

\* Guess::new on every value of GuessInputs.
GuessNext ==
    \/ GuessNewPanic /\ UNCHANGED <<vars, avail, histvars, itervars, shoevars, limitvars,
                     rectvars, addvars, mutexvars, chanvars>>
    \/ GuessNewOk /\ UNCHANGED <<vars, avail, histvars, itervars, shoevars, limitvars,
                     rectvars, addvars, mutexvars, chanvars>>

GuessStart ==
    /\ WebIdle /\ IterInit /\ ShoesIdle /\ LimitIdle /\ GuessInit
    /\ RectIdle /\ AddIdle /\ MutexInit /\ ChanInit

SpecGuess == GuessStart /\ [][GuessNext]_allvars

\* The crates of the specifications above, at rest.
OldIdle == WebIdle /\ IterInit /\ ShoesIdle /\ LimitIdle /\ GuessIdle

oldvars == <<vars, avail, histvars, itervars, shoevars, limitvars, guessvars>>

\* Rectangle::can_hold of both crates on every pair of Rectangles.
RectNext ==
    CanHoldReturn /\ UNCHANGED <<oldvars, addvars, mutexvars, chanvars>>

RectStart == OldIdle /\ RectInit /\ AddIdle /\ MutexInit /\ ChanInit

SpecRect == RectStart /\ [][RectNext]_allvars

\* add_two of the three crates on every value of AddInputs, in a build with
\* and in a build without overflow checks.
AddNext ==
    \/ AddTwoReturn /\ UNCHANGED <<oldvars, rectvars, mutexvars, chanvars>>
    \/ AddTwoPanic /\ UNCHANGED <<oldvars, rectvars, mutexvars, chanvars>>

AddStart == OldIdle /\ RectIdle /\ AddInit /\ MutexInit /\ ChanInit

SpecAdd == AddStart /\ [][AddNext]_allvars

\* main of 03_shared_state_concurrency and its ten threads.
MutexNext ==
    \/ Spawn /\ UNCHANGED <<oldvars, rectvars, addvars, chanvars>>
    \/ SpawnFail /\ UNCHANGED <<oldvars, rectvars, addvars, chanvars>>
    \/ (\E t \in Threads : ThreadLock(t))
          /\ UNCHANGED <<oldvars, rectvars, addvars, chanvars>>
    \/ (\E t \in Threads : ThreadLoad(t))
          /\ UNCHANGED <<oldvars, rectvars, addvars, chanvars>>
    \/ (\E t \in Threads : ThreadStore(t))
          /\ UNCHANGED <<oldvars, rectvars, addvars, chanvars>>
    \/ (\E t \in Threads : ThreadUnlock(t))
          /\ UNCHANGED <<oldvars, rectvars, addvars, chanvars>>
    \/ Join /\ UNCHANGED <<oldvars, rectvars, addvars, chanvars>>
    \/ PrintResult /\ UNCHANGED <<oldvars, rectvars, addvars, chanvars>>

MutexStart == OldIdle /\ RectIdle /\ AddIdle /\ MutexInit /\ ChanInit

SpecMutex == MutexStart /\ [][MutexNext]_allvars

\* main of 02_message_passing and its two producer threads.
ProducerStep(t) == Send(t) \/ Sleep(t) \/ DropSender(t)

MainStep == SpawnProducer \/ Recv \/ RecvEnd

ChanNext ==
    \/ SpawnProducer /\ UNCHANGED <<oldvars, rectvars, addvars, mutexvars>>
    \/ SpawnProducerFail /\ UNCHANGED <<oldvars, rectvars, addvars, mutexvars>>
    \/ (\E t \in Producers : Send(t))
          /\ UNCHANGED <<oldvars, rectvars, addvars, mutexvars>>
    \/ (\E t \in Producers : Sleep(t))
          /\ UNCHANGED <<oldvars, rectvars, addvars, mutexvars>>
    \/ (\E t \in Producers : DropSender(t))
          /\ UNCHANGED <<oldvars, rectvars, addvars, mutexvars>>
    \/ Recv /\ UNCHANGED <<oldvars, rectvars, addvars, mutexvars>>
    \/ RecvEnd /\ UNCHANGED <<oldvars, rectvars, addvars, mutexvars>>

ChanStart == OldIdle /\ RectIdle /\ AddIdle /\ MutexInit /\ ChanInit

SpecChan == ChanStart /\ [][ChanNext]_allvars

\* The scheduler lets every thread that can take a step take one
\* eventually: each producer, and main.
ChanFairness ==
    /\ \A t \in Producers : WF_chanvars(ProducerStep(t))
    /\ WF_chanvars(MainStep)

SpecChanFair == SpecChan /\ ChanFairness

----------------------------------------------------------------------------
(* Properties of the request/response exchange *)

AfterRead == pc \in {"classify", "fs_read", "write", "flush", "return"}

IoFailures == {"read", "write", "flush"}

InFlight == {"Accepted", "Read", "Classified", "Responded"}

\* C3: at most one connection is between Accepted and Closed, and while one
\* is, every earlier connection is closed and no later one is accepted.
C3_OneConnectionAtATime ==
    /\ Cardinality({c \in Conns : phase[c] \in InFlight}) <= 1
    /\ \A c \in Conns : phase[c] \in InFlight =>
          /\ \A d \in Conns : d < c => phase[d] = "Closed"
          /\ \A d \in Conns : d > c => phase[d] = "Queued"

C3_Witness ==
    /\ MaxConns >= 2
    /\ phase[1] = "Closed"
    /\ phase[2] = "Responded"
    /\ panic = "none"

\* C4 as stated: after a read, write or flush failure on a connection the
\* accept loop is still running, so the next connection can be accepted.
C4_LaterConnectionsServed ==
    (panic \in IoFailures /\ cur < MaxConns) => pc # "terminated"

\* C4 as amended: a read, write or flush failure on a connection panics
\* main: the connection is closed, the process is terminated, and every
\* connection after it stays unaccepted.
C4_IoFailureTerminates ==
    panic \in IoFailures =>
        /\ pc = "terminated"
        /\ phase[cur] = "Closed"
        /\ \A d \in Conns : d > cur => phase[d] = "Queued"
        /\ ~ENABLED Accept

C4_Witness ==
    /\ panic \in IoFailures
    /\ cur < MaxConns
    /\ phase[cur + 1] = "Queued"

\* C5: when the file of the selected route does not exist at the time
\* handle_connection reads it, the step it takes is a panic that ends the
\* process, and no byte was or is written to the connection.
C5_MissingFileIsFatal ==
    [][ /\ (pc = "fs_read" /\ pc' # pc /\ ~fs[filename].exists)
            => pc' = "terminated" /\ panic' = "file" /\ wire' = <<>>
        /\ (panic' = "file") => (wire' = <<>> /\ ~flushed') ]_vars

C5_Witness ==
    /\ panic = "file"
    /\ filename = HelloFile
    /\ ~fs[HelloFile].exists
    /\ wire = <<>>

\* C6: for a request shorter than the buffer, the route is the root route
\* exactly when the bytes received begin with the literal; the zero bytes
\* after them count for nothing, so a proper prefix of the literal (the empty
\* request too) is not-found.
C6_ZeroPaddingIgnored ==
    (filename # "" /\ Len(request) < BufferSize) =>
        /\ (filename = HelloFile) <=> StartsWith(Received, get)
        /\ (status_line = StatusOk) <=> StartsWith(Received, get)
        /\ (Len(request) < Len(get) /\ IsPrefix(request, get))
              => filename = NotFoundFile /\ status_line = StatusNotFound

C6_Witness ==
    /\ filename = NotFoundFile
    /\ request = Take(get, Len(get) - 1)
    /\ nread = Len(request)
    /\ \A i \in (nread + 1)..BufferSize : buffer[i] = 0

\* C7 as stated: after the read step the buffer holds the whole of a request
\* that is exactly BufferSize bytes long.
C7_ReadInFull ==
    (AfterRead /\ Len(request) = BufferSize) => buffer = request

\* C8: one read per connection, of at most BufferSize bytes; the buffer holds
\* the leading nread bytes of the request and zeros, so the route is decided
\* by bytes within the first BufferSize alone, and the response is the
\* route's status line and file contents.
C8_OneBoundedRead ==
    /\ reads <= 1
    /\ nread <= BufferSize
    /\ AfterRead =>
          /\ reads = 1
          /\ buffer = Take(request, nread) \o Fill(BufferSize - nread, 0)
    /\ filename # "" =>
          (filename = HelloFile) <=>
              StartsWith(Take(Take(request, BufferSize), nread), get)
    /\ pc \in {"write", "flush", "return"} =>
          response = status_line \o contents

C8_Witness ==
    /\ pc = "return"
    /\ Len(request) > BufferSize
    /\ nread = BufferSize
    /\ reads = 1
    /\ filename = HelloFile

\* C9: a connection's phase only moves to the next phase of Queued,
\* Accepted, Read, Classified, Responded, Closed, or to Closed when main
\* panics; handle_connection never steps back for the same connection, and
\* once it has responded nothing more is written.
C9_PhasesInOrder ==
    [][ /\ \A c \in Conns : phase'[c] # phase[c] =>
              \/ Rank(phase'[c]) = Rank(phase[c]) + 1
              \/ phase'[c] = "Closed" /\ pc' = "terminated"
        /\ cur' = cur => PcRank(pc') >= PcRank(pc)
        /\ (cur >= 1 /\ cur' = cur /\ phase[cur] \in {"Responded", "Closed"})
              => wire' = wire ]_vars

C9_Witness ==
    /\ MaxConns >= 2
    /\ phase[1] = "Closed"
    /\ cur = 2
    /\ panic = "write"
    /\ phase[2] = "Closed"

\* C10 as stated: when write and flush have both returned Ok, the whole
\* response is on the connection before the flush and before the close.
C10_FullResponseBeforeClose ==
    /\ pc = "flush" => wire = response
    /\ pc = "return" => (flushed /\ wire = response)

----------------------------------------------------------------------------
(* Properties across connections *)

\* C11 as stated: the same request issued twice, with hello.html and
\* 404.html the same at both reads, yields byte-identical responses on the
\* two connections.
C11_SameRequestSameResponse ==
    (/\ pc = "return"
     /\ prev.valid
     /\ request = prev.request
     /\ fsAtRead = prev.files) => wire = prev.wire

\* C12: once incoming() has yielded an error main has terminated: the
\* connections taken before it are closed, the later ones stay queued, and
\* from then on no connection is accepted, read or written to.
C12_AcceptFailureTerminates ==
    /\ [](panic = "accept" =>
            /\ pc = "terminated"
            /\ \A c \in Conns :
                  phase[c] = IF c <= cur THEN "Closed" ELSE "Queued")
    /\ [][panic = "accept" =>
            (pc' = pc /\ cur' = cur /\ phase' = phase /\ stream' = stream)]_allvars

C12_Witness ==
    /\ panic = "accept"
    /\ pc = "terminated"
    /\ cur = 1
    /\ phase[1] = "Closed"
    /\ phase[MaxConns] = "Queued"

\* C13: once bind has failed main has terminated before its loop: no
\* connection has been accepted, nothing has been read or written, and
\* nothing of that ever happens afterwards.
C13_BindFailureTerminates ==
    /\ [](panic = "bind" =>
            /\ pc = "terminated"
            /\ cur = 0
            /\ \A c \in Conns : phase[c] = "Queued"
            /\ reads = 0
            /\ wire = <<>>)
    /\ [][panic = "bind" =>
            (pc' = pc /\ cur' = cur /\ phase' = phase /\ stream' = stream)]_allvars

C13_Witness ==
    /\ panic = "bind"
    /\ pc = "terminated"
    /\ cur = 0

\* C14: the body of the response handed to the write is the contents the
\* route's file had when this connection read it, whatever an earlier
\* connection was served; what is on the connection is a leading part of
\* that response.
C14_FileReadOnEveryRequest ==
    pc \in {"write", "flush", "return"} =>
        /\ contents = fsAtRead[filename].bytes
        /\ response = status_line \o fsAtRead[filename].bytes
        /\ IsPrefix(wire, response)

C14_Witness ==
    /\ pc = "return"
    /\ prev.valid
    /\ prev.filename = filename
    /\ prev.files[filename] # fsAtRead[filename]
    /\ contents = fsAtRead[filename].bytes
    /\ wire = response

\* C15: while handle_connection is in stream.read every later connection
\* stays queued; and while the client's bytes have not arrived, main stays
\* in that read for the same connection: the wait ends only when the bytes
\* arrive, or with a read error that terminates the process.
C15_SlowClientStallsListener ==
    /\ [](pc = "read" =>
            \A c \in Conns : c > cur => phase[c] = "Queued")
    /\ [][(pc = "read" /\ ~avail) =>
            \/ avail'
            \/ pc' = "read" /\ cur' = cur /\ phase' = phase /\ stream' = stream
            \/ pc' = "terminated" /\ panic' = "read" /\ cur' = cur]_allvars

C15_Witness ==
    /\ pc = "read"
    /\ ~avail
    /\ cur = 1
    /\ phase[cur] = "Accepted"
    /\ phase[MaxConns] = "Queued"

----------------------------------------------------------------------------
(* Properties of Counter and shoes_in_my_size *)

\* C16: the i-th call of next on a new Counter returns Some(i) for i from 1
\* to 5 and None from the sixth call on, and count never exceeds 5.
C16_CounterCountsToFive ==
    /\ count <= 5
    /\ count = Min(Len(returned), 5)
    /\ \A i \in 1..Len(returned) :
          returned[i] = IF i <= 5 THEN Some(i) ELSE None

C16_Witness ==
    /\ Len(returned) >= 7
    /\ returned[5] = Some(5)
    /\ returned[6] = None
    /\ returned[7] = None
    /\ count = 5

\* C17: the zip produces the pairs (1,2), (2,3), (3,4), (4,5), in that
\* order and no other; it ends when skip(1) returns None, with the 5 of the
\* left side unpaired, and the sum of the products divisible by 3 is 18.
C17_ZipSkipSum ==
    /\ IsPrefix(pairs, <<<<1, 2>>, <<2, 3>>, <<3, 4>>, <<4, 5>>>>)
    /\ \A i \in 1..Len(pairs) : pairs[i][1] # 5
    /\ zip_pc = "done" =>
          /\ pairs = <<<<1, 2>>, <<2, 3>>, <<3, 4>>, <<4, 5>>>>
          /\ sum = 18

C17_Witness ==
    /\ zip_pc = "done"
    /\ a_item = Some(5)
    /\ Len(pairs) = 4
    /\ sum = 18

\* C18: when shoes_in_my_size has gone through the vector, its result is
\* the shoes of the input whose size is shoe_size, each once and in the
\* order of the input, and nothing else.
C18_ShoesOfMySize ==
    ShoesDone =>
        /\ in_my_size = SelectSeq(shoes, LAMBDA s : s.size = shoe_size)
        /\ Len(picked) = Len(in_my_size)
        /\ \A k \in 1..Len(picked) : in_my_size[k] = shoes[picked[k]]
        /\ \A k \in 1..(Len(picked) - 1) : picked[k] < picked[k + 1]
        /\ {picked[k] : k \in 1..Len(picked)} =
              {i \in 1..Len(shoes) : shoes[i].size = shoe_size}

C18_Witness ==
    /\ ShoesDone
    /\ Len(shoes) = 3
    /\ shoes[2].size # shoe_size
    /\ in_my_size = <<shoes[1], shoes[3]>>
    /\ shoes[1] # shoes[3]

----------------------------------------------------------------------------
(* Properties of LimitTracker and Guess *)

\* C19 as stated: set_value(v) stores v and sends at most one message: the
\* error when v is at least 100% of max, the urgent warning from 90% to
\* below 100%, the warning from 75% to below 90%, nothing below 75%.
C19_TiersByPercentage ==
    [][LET v == arg'
           new == SubSeq(sent_messages', Len(sent_messages) + 1,
                         Len(sent_messages'))
       IN  /\ value' = v
           /\ Len(new) <= 1
           /\ 100 * v >= 100 * max => new = <<MsgError>>
           /\ (100 * v >= 90 * max /\ 100 * v < 100 * max)
                 => new = <<MsgUrgent>>
           /\ (100 * v >= 75 * max /\ 100 * v < 90 * max)
                 => new = <<MsgWarning>>
           /\ 100 * v < 75 * max => new = <<>>]_limitvars

\* C20: Guess::new has panicked exactly when its argument is below 1 or
\* above 100, and otherwise has returned a Guess whose value is the argument.
C20_GuessRange ==
    guess_state # "called" =>
        /\ (guess_state = "panicked") <=> (guess_arg < 1 \/ guess_arg > 100)
        /\ (guess_state = "returned") <=> (1 <= guess_arg /\ guess_arg <= 100)
        /\ guess_state = "returned" => guess.value = guess_arg

C20_Witness ==
    /\ guess_arg = 200
    /\ guess_state = "panicked"

----------------------------------------------------------------------------
(* Properties of Rectangle::can_hold and add_two *)

\* C21: can_hold has returned true exactly when self is wider and higher
\* than other: never for a rectangle equal to other in a dimension, never
\* for other itself, and never when other is the larger of the two.
C21_StrictContainment ==
    rect_state = "returned" =>
        /\ rect_result <=> (/\ rect_self.width > rect_other.width
                            /\ rect_self.height > rect_other.height)
        /\ (\/ rect_self.width = rect_other.width
            \/ rect_self.height = rect_other.height) => ~rect_result
        /\ rect_self = rect_other => ~rect_result
        /\ (/\ rect_other.width > rect_self.width
            /\ rect_other.height > rect_self.height) => ~rect_result

C21_Witness ==
    /\ rect_state = "returned"
    /\ rect_self.width = rect_other.width
    /\ rect_self.height > rect_other.height
    /\ rect_result = FALSE

\* C22 as stated: for every i32 argument add_two returns, and what it
\* returns is the argument plus 2.
C22_AddTwoEverywhere ==
    add_state # "called" =>
        /\ add_state = "returned"
        /\ add_result > add_arg
        /\ add_result - add_arg = 2

\* C22, amended: for an argument up to i32::MAX - 2 add_two returns the
\* argument plus 2; for i32::MAX - 1 and i32::MAX the addition overflows,
\* and add_two panics in a build with overflow checks and returns the
\* wrapped sum (i32::MIN, i32::MIN + 1) in a build without.
C22_AddTwoUnlessOverflow ==
    add_state # "called" =>
        IF add_arg <= I32Max - 2
        THEN /\ add_state = "returned"
             /\ add_result - 2 = add_arg
        ELSE IF add_overflow_checks
        THEN add_state = "panicked"
        ELSE /\ add_state = "returned"
             /\ add_result = I32Min + (add_arg - (I32Max - 1))

C22_Witness ==
    /\ add_crate = "test_organization"
    /\ add_arg = I32Max
    /\ add_overflow_checks
    /\ add_state = "panicked"

----------------------------------------------------------------------------
(* Properties of the shared counter and of the channel *)

\* C23: at most one thread is between its lock and the drop of its guard,
\* and it is the holder of the mutex; the counter is the number of threads
\* that have made their increment; main reads the counter only when every
\* thread has finished, and the value it prints is 10.
C23_CounterIsTen ==
    /\ Cardinality({t \in Threads :
                      m_thread[t] \in {"load", "store", "unlock"}}) <= 1
    /\ \A t \in Threads :
          m_thread[t] \in {"load", "store", "unlock"} => m_holder = t
    /\ m_counter = Cardinality({t \in Threads :
                                  m_thread[t] \in {"unlock", "done"}})
    /\ m_main \in {"print", "done"} =>
          /\ m_joined = 10
          /\ \A t \in Threads : m_thread[t] = "done"
          /\ m_counter = 10
    /\ m_main = "done" <=> m_result # None
    /\ m_main = "done" => m_result = Some(10)

C23_Witness ==
    /\ m_main = "done"
    /\ m_joined = 10
    /\ m_result = Some(10)

\* The messages of producer t among those of q, in the order of q.
MessagesOf(t, q) ==
    SelectSeq(q, LAMBDA m : \E i \in 1..Len(Vals[t]) : Vals[t][i] = m)

\* C24: what the receiver has got from each producer is a leading part of
\* that producer's vals, in their order, and nothing else; when the loop
\* has ended it has got the eight messages, each once.
C24_EightMessagesInOrder ==
    /\ \A t \in Producers : IsPrefix(MessagesOf(t, c_got), Vals[t])
    /\ Len(c_got) = Len(MessagesOf(1, c_got)) + Len(MessagesOf(2, c_got))
    /\ c_main = "done" =>
          /\ MessagesOf(1, c_got) = <<"hi", "from", "the", "thread">>
          /\ MessagesOf(2, c_got) = <<"more", "messages", "for", "you">>
          /\ Len(c_got) = 8

C24_Witness ==
    /\ c_main = "done"
    /\ Len(c_got) = 8
    /\ c_got[1] = "more"
    /\ c_got[2] = "hi"
    /\ c_got[3] = "from"
    /\ c_got[8] = "you"

\* C25: once both producers have sent their vals and dropped their
\* Senders, the loop of main comes to its end, with the channel drained and
\* the eight messages received.
C25_ReceiveLoopTerminates ==
    (\A t \in Producers : c_prod[t] = "done")
        ~> (c_main = "done" /\ c_queue = <<>> /\ Len(c_got) = 8)

C25_Witness ==
    /\ \A t \in Producers : c_prod[t] = "done"
    /\ c_senders = 0
    /\ c_main = "recv"
    /\ Len(c_queue) >= 2

====
